---- MODULE Spec2Model ----
(***************************************************************************)
(* The dice-rolling widget: App (multiplier overlay, die selector), the    *)
(* mounted die component (D20Dice or D6Dice), its pending setTimeout       *)
(* callbacks and the per-frame useFrame callback.                          *)
(*                                                                         *)
(* Numbers: rotations are JavaScript numbers in radians; the model keeps   *)
(* them as integers in milliradians.  Frame deltas are seconds in the      *)
(* code; the model keeps them as integers in milliseconds.                 *)
(* Math.random() returns u in [0, 1); the model draws u = k / RandomDenom  *)
(* for k in 0 .. RandomDenom - 1.                                          *)
(*                                                                         *)
(* Rendering: a component's handlers and its useFrame callback close over  *)
(* the state of the render that created them.  A state update made inside  *)
(* a click handler is rendered before anything else runs; one made inside  *)
(* a setTimeout or useFrame callback is rendered by a later task, and one  *)
(* animation frame may run before that task.  `rendered` is the state the  *)
(* closures see.  A click is accepted only when no render is pending, and  *)
(* App's own handlers always see App's current state.                      *)
(***************************************************************************)
EXTENDS Integers, Sequences, FiniteSets, TLC

\* ---------------------------------------------------------------- bounds
\* Math.random() is drawn as k / RandomDenom, k in 0 .. RandomDenom - 1.
RandomDenom == 20
\* handleMultiply is offered only while multiplier * factor <= MaxMultiplier.
MaxMultiplier == 6
\* A click is offered only while fewer than MaxTimers callbacks are pending.
MaxTimers == 2
\* At most MaxTicks tumbling frames are rendered per roll.
MaxTicks == 2

\* ------------------------------------------------------------- constants
\* JavaScript null (useState<number | null>(null)).
NULL == -1
\* Faces of the two dice.
D20Faces == 20
D6Faces == 6
\* Settling snap threshold, 0.1 rad, in milliradians.
threshold == 100

\* Frame deltas (ms) the renderer supplies.
Deltas == {40}
\* The multiplier buttons rendered by App.
Factors == {2, 3, 4, 5, 6}
DiceType == {"d20", "d6"}

\* Face-up rotations of the D20, milliradians, index 1 = roll of 1.
D20_FACE_UP_ROTATIONS ==
  << <<2000, 0, 0>>, <<1200, 0, 0>>, <<-700, -600, -200>>, <<2000, -300, -600>>,
     <<1600, 2700, -1200>>, <<500, -1500, 0>>, <<0, 450, 0>>, <<-300, 1600, 0>>,
     <<1700, 800, 1200>>, <<0, -2700, 0>>, <<-1200, 3140, 0>>, <<2000, 300, 600>>,
     <<-1200, 0, 0>>, <<700, 800, 0>>, <<-300, -1600, 0>>, <<0, -450, 0>>,
     <<-700, 2500, 200>>, <<-700, 600, 200>>, <<-700, -2500, -200>>,
     <<800, -800, 0>> >>

\* A D6 table whose last entry repeats the first ([0, 0, 0] for [0, PI, 0]).
D6TableWithTwin ==
  << <<0, 0, 0>>, <<0, -1571, 0>>, <<1571, 0, 0>>, <<-1571, 0, 0>>,
     <<0, 1571, 0>>, <<0, 0, 0>> >>

\* Face-up rotations of the D6: Math.PI / 2 = 1571 mrad, Math.PI = 3142 mrad.
D6_FACE_UP_ROTATIONS ==
  << <<0, 0, 0>>, <<0, -1571, 0>>, <<1571, 0, 0>>, <<-1571, 0, 0>>,
     <<0, 1571, 0>>, <<0, 3142, 0>> >>

\* JavaScript undefined: what an array gives for an index it does not hold.
UNDEFINED == << >>

\* FACE_UP_ROTATIONS[result - 1] in D20Dice.
D20FaceUp(result) ==
  IF result \in DOMAIN D20_FACE_UP_ROTATIONS
    THEN D20_FACE_UP_ROTATIONS[result] ELSE UNDEFINED

\* FACE_UP_ROTATIONS[0] in D6Dice: the entry of face 1 for every result.
D6FaceUpFirst(result) == D6_FACE_UP_ROTATIONS[1]

\* FACE_UP_ROTATIONS[result] in D6Dice: the index without its - 1.
D6FaceUpOffByOne(result) ==
  IF result + 1 \in DOMAIN D6_FACE_UP_ROTATIONS
    THEN D6_FACE_UP_ROTATIONS[result + 1] ELSE UNDEFINED

\* FACE_UP_ROTATIONS[result - 1] in D6Dice.
D6FaceUp(result) ==
  IF result \in DOMAIN D6_FACE_UP_ROTATIONS
    THEN D6_FACE_UP_ROTATIONS[result] ELSE UNDEFINED

VARIABLES
  selectedDice,    \* App: selectedDice
  displayValue,    \* App: displayValue (NULL or a number)
  multiplier,      \* App: multiplier
  isRolling,       \* mounted die: isRolling
  rollValue,       \* mounted die: rollValue (NULL or a number)
  isSettling,      \* mounted D6: isSettling (FALSE on the D20, which has none)
  rotation,        \* mounted die: meshRef.current.rotation
  targetRotation,  \* mounted D6: targetRotation.current
  ticks,           \* tumbling frames rendered since the last accepted click
  timers,          \* pending setTimeout callbacks, oldest first
  lastOutcome,     \* result of the latest timer callback that ran (NULL: none)
  lastNotified,    \* argument of the latest onRollComplete call (NULL: none)
  last,            \* the handler that ran last and what it did
  rendered         \* mounted die: the state its latest render closed over

vars == << selectedDice, displayValue, multiplier, isRolling, rollValue,
           isSettling, rotation, targetRotation, ticks, timers, lastOutcome,
           lastNotified, last, rendered >>

appVars == << displayValue, multiplier >>
diceVars == << isRolling, rollValue, isSettling, rotation, targetRotation, ticks >>

\* What a handler invocation did: arg = its argument (0: it takes none),
\* accepted = it passed its guard, notified = number of onRollComplete calls
\* it made, live = the component it belongs to was mounted when it ran.
\* sound = what became of the audio cue it requested ("none": it requested
\* no cue).
SoundEvent(op, arg, accepted, notified, live, sound) ==
  [op |-> op, arg |-> arg, accepted |-> accepted, notified |-> notified,
   live |-> live, sound |-> sound]

\* A handler invocation that requested no audio cue.
Event(op, arg, accepted, notified, live) ==
  SoundEvent(op, arg, accepted, notified, live, "none")

\* The state of the die one render closes over.
Snapshot(rolling, settling, value) ==
  [isRolling |-> rolling, isSettling |-> settling, rollValue |-> value]

\* ------------------------------------------------------------------- App
\* handleRollComplete without its setMultiplier(1).
HandleRollCompleteKeepsMultiplier(value) ==
  [displayValue |-> value, multiplier |-> multiplier]

\* handleRollComplete(value): the overlay state it leaves.
HandleRollComplete(value) ==
  [displayValue |-> value, multiplier |-> 1]

\* handleMultiply with setMultiplier(factor) for setMultiplier(multiplier * factor).
HandleMultiplySetsFactor(dv, m, factor) ==
  IF dv # NULL
    THEN [displayValue |-> dv * factor, multiplier |-> factor]
    ELSE [displayValue |-> dv, multiplier |-> m]

\* handleMultiply without its displayValue !== null test (null * factor is 0).
HandleMultiplyUnguarded(dv, m, factor) ==
  [displayValue |-> (IF dv = NULL THEN 0 ELSE dv) * factor,
   multiplier |-> m * factor]

\* handleMultiply without its setDisplayValue(displayValue * factor).
HandleMultiplyOnlyMultiplier(dv, m, factor) ==
  IF dv # NULL
    THEN [displayValue |-> dv, multiplier |-> m * factor]
    ELSE [displayValue |-> dv, multiplier |-> m]

\* handleMultiply(factor) on overlay state (dv, m).
HandleMultiply(dv, m, factor) ==
  IF dv # NULL
    THEN [displayValue |-> dv * factor, multiplier |-> m * factor]
    ELSE [displayValue |-> dv, multiplier |-> m]

\* handleResetMultiplier dividing by nothing: only the multiplier is reset.
HandleResetMultiplierNoDivide(dv, m) ==
  IF dv # NULL /\ m > 1
    THEN [displayValue |-> dv, multiplier |-> 1]
    ELSE [displayValue |-> dv, multiplier |-> m]

\* handleResetMultiplier clearing the value it should divide.
HandleResetMultiplierClears(dv, m) ==
  IF dv # NULL /\ m > 1
    THEN [displayValue |-> NULL, multiplier |-> 1]
    ELSE [displayValue |-> dv, multiplier |-> m]

\* handleResetMultiplier without its test (null / 1 is 0).
HandleResetMultiplierUnguarded(dv, m) ==
  [displayValue |-> (IF dv = NULL THEN 0 ELSE dv) \div m, multiplier |-> 1]

\* handleResetMultiplier() on overlay state (dv, m).  dv / m is a floating
\* division in the code; dv is a multiple of m whenever the branch is taken
\* from a state the handlers produce, and \div is the quotient then.
HandleResetMultiplier(dv, m) ==
  IF dv # NULL /\ m > 1
    THEN [displayValue |-> dv \div m, multiplier |-> 1]
    ELSE [displayValue |-> dv, multiplier |-> m]

\* The disabled attribute of every multiplier button x2 .. x6:
\* disabled={displayValue === null}
MultiplyDisabled(dv) == dv = NULL

\* A Reset button that is disabled only below multiplier 1.
ResetDisabledBelowOne(m) == m < 1

\* The disabled attribute of the Reset button: disabled={multiplier <= 1}
ResetDisabled(m) == m <= 1

\* ----------------------------------------------------------------- Scene
\* The die component the scene renders for selectedDice, as it is right
\* after mounting: useState(false), useState(null), useRef([0, 0, 0]) and a
\* mesh whose rotation is the default (0, 0, 0).
FreshDice ==
  [isRolling |-> FALSE, rollValue |-> NULL, isSettling |-> FALSE,
   rotation |-> <<0, 0, 0>>, targetRotation |-> <<0, 0, 0>>]

\* The onRollComplete prop the scene gives the D6Dice it mounts: App's
\* handleRollComplete (TRUE), or none (FALSE).
SceneOnRollComplete == TRUE

\* Unmounting: every pending callback now belongs to a component that is no
\* longer mounted.  Nothing clears the timeouts.
Orphan(ts) == [i \in 1 .. Len(ts) |-> [ts[i] EXCEPT !.live = FALSE]]

\* ------------------------------------------------------------ arithmetic
\* Math.round for Math.floor.
RollResultRounded(k, faces) ==
  ((2 * k * faces + RandomDenom) \div (2 * RandomDenom)) + 1

\* Math.floor(Math.random() * faces) + 1 for Math.random() = k / RandomDenom.
RollResult(k, faces) == ((k * faces) \div RandomDenom) + 1

\* The rolling branch with = for +=.
TumbleAssign(rot, delta) == << delta * 5, delta * 7, delta * 3 >>

\* rotation.x += delta * 5; rotation.y += delta * 7; rotation.z += delta * 3
Tumble(rot, delta) ==
  << rot[1] + delta * 5, rot[2] + delta * 7, rot[3] + delta * 3 >>

\* MathUtils.lerp(x, y, t) = (1 - t) * x + t * y with t = 25 * delta,
\* delta in ms and the result cut to whole milliradians.
Lerp(x, y, delta) == (((1000 - 25 * delta) * x) + (25 * delta * y)) \div 1000

Abs(x) == IF x < 0 THEN -x ELSE x

\* ------------------------------------------------------------------ Init
Init ==
  /\ selectedDice = "d20"
  /\ displayValue = NULL
  /\ multiplier = 1
  /\ isRolling = FreshDice.isRolling
  /\ rollValue = FreshDice.rollValue
  /\ isSettling = FreshDice.isSettling
  /\ rotation = FreshDice.rotation
  /\ targetRotation = FreshDice.targetRotation
  /\ ticks = 0
  /\ timers = << >>
  /\ lastOutcome = NULL
  /\ lastNotified = NULL
  /\ last = Event("init", 0, FALSE, 0, TRUE)
  /\ rendered = Snapshot(FreshDice.isRolling, FreshDice.isSettling,
                         FreshDice.rollValue)

\* ------------------------------------------------------------- rendering
\* The mounted die has state updates that no render has shown yet.
RenderPending == rendered # Snapshot(isRolling, isSettling, rollValue)

\* The render of the mounted die that a setTimeout or useFrame callback's
\* state updates have queued: new closures over the current state.
Render ==
  /\ RenderPending
  /\ rendered' = Snapshot(isRolling, isSettling, rollValue)
  /\ last' = Event("render", 0, TRUE, 0, TRUE)
  /\ UNCHANGED << selectedDice, appVars, diceVars, timers, lastOutcome,
                  lastNotified >>

\* Whether a die's render includes its result Text; the same test in both
\* dice, on the state r the render closes over: rollValue && !isRolling.
TextShown(r) == r.rollValue # NULL /\ r.rollValue # 0 /\ ~r.isRolling

\* --------------------------------------------------------------- D20Dice
\* The result Text with the two special cases the wrong way round.
D20TextSwapped(value) ==
  IF value = 1 THEN << "CRITICAL HIT!" >>
  ELSE IF value = 20 THEN << "CRITICAL FAIL!" >>
  ELSE << "Rolled: ", value >>

\* The content of D20Dice's result Text for rollValue = value; the template
\* string `Rolled: ${rollValue}` is kept as the pair of its parts.
D20Text(value) ==
  IF value = 20 THEN << "CRITICAL HIT!" >>
  ELSE IF value = 1 THEN << "CRITICAL FAIL!" >>
  ELSE << "Rolled: ", value >>

\* handleClick without its guard.
D20ClickUnguarded(rolling) == TRUE

\* handleClick's guard: if (isRolling) return
D20ClickAccepted(rolling) == ~rolling

\* D20Dice.handleClick without its setRollValue(null).
D20HandleClickKeepsValue ==
  /\ selectedDice = "d20"
  /\ IF D20ClickAccepted(rendered.isRolling)
       THEN /\ ~RenderPending
            /\ Len(timers) < MaxTimers
            /\ isRolling' = TRUE
            /\ ticks' = 0
            /\ timers' = Append(timers, [dice |-> "d20", live |-> TRUE])
            /\ rendered' = Snapshot(TRUE, isSettling, rollValue)
            /\ last' = Event("click", 0, TRUE, 0, TRUE)
            /\ UNCHANGED << rollValue, isSettling, rotation, targetRotation >>
       ELSE /\ last' = Event("click", 0, FALSE, 0, TRUE)
            /\ UNCHANGED << diceVars, timers, rendered >>
  /\ UNCHANGED << selectedDice, appVars, lastOutcome, lastNotified >>

\* D20Dice.handleClick, with the render its state updates cause.
D20HandleClick ==
  /\ selectedDice = "d20"
  /\ IF D20ClickAccepted(rendered.isRolling)
       THEN /\ ~RenderPending
            /\ Len(timers) < MaxTimers
            /\ isRolling' = TRUE
            /\ rollValue' = NULL
            /\ ticks' = 0
            /\ timers' = Append(timers, [dice |-> "d20", live |-> TRUE])
            /\ rendered' = Snapshot(TRUE, isSettling, NULL)
            /\ last' = Event("click", 0, TRUE, 0, TRUE)
            /\ UNCHANGED << isSettling, rotation, targetRotation >>
       ELSE /\ last' = Event("click", 0, FALSE, 0, TRUE)
            /\ UNCHANGED << diceVars, timers, rendered >>
  /\ UNCHANGED << selectedDice, appVars, lastOutcome, lastNotified >>

\* The D20 callback without its setIsRolling(false).
D20TimeoutKeepsRolling(k) ==
  /\ timers # << >>
  /\ Head(timers).dice = "d20"
  /\ LET result == RollResult(k, D20Faces)
         live == Head(timers).live
     IN /\ timers' = Tail(timers)
        /\ lastOutcome' = result
        /\ last' = Event("timeout", 0, TRUE, 0, live)
        /\ IF live
             THEN /\ rollValue' = result
                  /\ rotation' = IF D20FaceUp(result) # UNDEFINED
                                   THEN D20FaceUp(result) ELSE rotation
                  /\ UNCHANGED << isRolling, isSettling, targetRotation, ticks >>
             ELSE UNCHANGED diceVars
  /\ UNCHANGED << selectedDice, appVars, lastNotified, rendered >>

\* D20Dice.handleClick's setTimeout callback, for Math.random() = k / RandomDenom.
\* D20DiceProps has no onRollComplete: the callback calls nothing of App.
\* On an unmounted component the state setters do nothing and
\* meshRef.current is null.  Destructuring undefined throws, after the
\* setters have run and before rotation.set.
D20Timeout(k) ==
  /\ timers # << >>
  /\ Head(timers).dice = "d20"
  /\ LET result == RollResult(k, D20Faces)
         live == Head(timers).live
     IN /\ timers' = Tail(timers)
        /\ lastOutcome' = result
        /\ last' = Event("timeout", 0, TRUE, 0, live)
        /\ IF live
             THEN /\ isRolling' = FALSE
                  /\ rollValue' = result
                  /\ rotation' = IF D20FaceUp(result) # UNDEFINED
                                   THEN D20FaceUp(result) ELSE rotation
                  /\ UNCHANGED << isSettling, targetRotation, ticks >>
             ELSE UNCHANGED diceVars
  /\ UNCHANGED << selectedDice, appVars, lastNotified, rendered >>

\* D20Dice's useFrame callback without its isRolling test.
D20FrameUnguarded(delta) ==
  /\ selectedDice = "d20"
  /\ ticks < MaxTicks
  /\ rotation' = Tumble(rotation, delta)
  /\ ticks' = ticks + 1
  /\ last' = Event("frame", delta, rendered.isRolling, 0, TRUE)
  /\ UNCHANGED << selectedDice, appVars, isRolling, rollValue, isSettling,
                  targetRotation, timers, lastOutcome, lastNotified, rendered >>

\* D20Dice's useFrame callback, reading the isRolling it closed over.
D20Frame(delta) ==
  /\ selectedDice = "d20"
  /\ rendered.isRolling => ticks < MaxTicks
  /\ IF rendered.isRolling
       THEN /\ rotation' = Tumble(rotation, delta)
            /\ ticks' = ticks + 1
       ELSE UNCHANGED << rotation, ticks >>
  /\ last' = Event("frame", delta, rendered.isRolling, 0, TRUE)
  /\ UNCHANGED << selectedDice, appVars, isRolling, rollValue, isSettling,
                  targetRotation, timers, lastOutcome, lastNotified, rendered >>

\* ---------------------------------------------------------------- D6Dice
\* The displayValue prop the scene hands to the mounted D6Dice: the value
\* App gives the scene.
SceneDisplayValue(dv) == dv

\* The result Text reading the die's own outcome in every case.
D6TextOwnValue(value, dv) ==
  IF value = 6 THEN << "MAX ROLL!" >>
  ELSE IF value = 1 THEN << "MIN ROLL!" >>
  ELSE << "Rolled: ", value >>

\* The content of D6Dice's result Text for rollValue = value and the prop
\* displayValue = dv: `Rolled: ${displayValue ?? rollValue}` is kept as the
\* pair of its parts, ?? falling back on rollValue for a null prop.
D6Text(value, dv) ==
  IF value = 6 THEN << "MAX ROLL!" >>
  ELSE IF value = 1 THEN << "MIN ROLL!" >>
  ELSE << "Rolled: ", IF dv # NULL THEN dv ELSE value >>

\* handleClick without its guard.
D6ClickUnguarded(rolling, settling) == TRUE

\* handleClick's guard: if (isRolling) return
D6ClickAccepted(rolling, settling) == ~rolling

\* What became of a requested audio cue: play() resolved (ok) or rejected.
Cue(ok) == IF ok THEN "played" ELSE "failed"

\* A cue whose failure is thrown into the handler that requested it.
PlayThrows(ok) == ~ok

\* Whether a cue's failure ends the handler that requested it:
\* sound.play().catch(() => {}) swallows the rejection.
PlayAborts(ok) == FALSE

\* D6Dice.handleClick, with the render its state updates cause.  The roll
\* cue is requested after the guard and before the state updates.
D6HandleClick(ok) ==
  /\ selectedDice = "d6"
  /\ IF D6ClickAccepted(rendered.isRolling, rendered.isSettling)
       THEN /\ ~RenderPending
            /\ Len(timers) < MaxTimers
            /\ last' = SoundEvent("click", 0, TRUE, 0, TRUE, Cue(ok))
            /\ IF PlayAborts(ok)
                 THEN UNCHANGED << diceVars, timers, rendered >>
                 ELSE /\ isRolling' = TRUE
                      /\ rollValue' = NULL
                      /\ ticks' = 0
                      /\ timers' = Append(timers, [dice |-> "d6", live |-> TRUE])
                      /\ rendered' = Snapshot(TRUE, isSettling, NULL)
                      /\ UNCHANGED << isSettling, rotation, targetRotation >>
       ELSE /\ last' = Event("click", 0, FALSE, 0, TRUE)
            /\ UNCHANGED << diceVars, timers, rendered >>
  /\ UNCHANGED << selectedDice, appVars, lastOutcome, lastNotified >>

\* A D6 callback that never calls onRollComplete.
D6NotifiesNever(onRollComplete) == 0

\* The number of onRollComplete calls one run of the D6 callback makes:
\* if (onRollComplete) { onRollComplete(result) }
D6Notifications(onRollComplete) == IF onRollComplete THEN 1 ELSE 0

\* D6Dice.handleClick's setTimeout callback, for Math.random() = k / RandomDenom.
\* The callback keeps the onRollComplete it closed over, so it calls App's
\* handleRollComplete whether or not its component is still mounted; the
\* state setters of an unmounted component do nothing.
D6Timeout(k) ==
  /\ timers # << >>
  /\ Head(timers).dice = "d6"
  /\ LET result == RollResult(k, D6Faces)
         live == Head(timers).live
         n == D6Notifications(SceneOnRollComplete)
     IN /\ timers' = Tail(timers)
        /\ lastOutcome' = result
        /\ last' = Event("timeout", 0, TRUE, n, live)
        /\ IF n > 0
             THEN /\ displayValue' = HandleRollComplete(result).displayValue
                  /\ multiplier' = HandleRollComplete(result).multiplier
                  /\ lastNotified' = result
             ELSE UNCHANGED << appVars, lastNotified >>
        /\ IF live
             THEN /\ isRolling' = FALSE
                  /\ rollValue' = result
                  /\ targetRotation' = D6FaceUp(result)
                  /\ isSettling' = TRUE
                  /\ UNCHANGED << rotation, ticks >>
             ELSE UNCHANGED diceVars
  /\ UNCHANGED << selectedDice, rendered >>

\* The settling branch with a threshold test that one axis satisfies
\* (|| for &&).
SettleAnyAxis(rot, target, delta) ==
  LET eased == << Lerp(rot[1], target[1], delta),
                  Lerp(rot[2], target[2], delta),
                  Lerp(rot[3], target[3], delta) >>
      close == \/ Abs(eased[1] - target[1]) < threshold
               \/ Abs(eased[2] - target[2]) < threshold
               \/ Abs(eased[3] - target[3]) < threshold
  IN [rotation |-> IF close THEN target ELSE eased, close |-> close]

\* The settling branch of D6Dice's useFrame callback on rotation rot:
\* ease every axis, then snap when all three are within the threshold
\* (close: the branch then calls setIsSettling(false) and requests the
\* settle cue).
Settle(rot, target, delta) ==
  LET eased == << Lerp(rot[1], target[1], delta),
                  Lerp(rot[2], target[2], delta),
                  Lerp(rot[3], target[3], delta) >>
      close == /\ Abs(eased[1] - target[1]) < threshold
               /\ Abs(eased[2] - target[2]) < threshold
               /\ Abs(eased[3] - target[3]) < threshold
  IN [rotation |-> IF close THEN target ELSE eased, close |-> close]

\* D6Dice's useFrame callback, reading the isRolling and isSettling it
\* closed over: the rolling branch, then the settling branch (whose first
\* line, destructuring targetRotation.current, throws on undefined and so
\* leaves the rest undone).  The settle cue is requested last.
D6Frame(delta, ok) ==
  /\ selectedDice = "d6"
  /\ rendered.isRolling => ticks < MaxTicks
  /\ LET tumbled == IF rendered.isRolling
                      THEN Tumble(rotation, delta) ELSE rotation
         settled == IF rendered.isSettling /\ targetRotation # UNDEFINED
                      THEN Settle(tumbled, targetRotation, delta)
                      ELSE [rotation |-> tumbled, close |-> FALSE]
     IN /\ rotation' = settled.rotation
        /\ isSettling' = IF settled.close THEN FALSE ELSE isSettling
        /\ last' = SoundEvent("frame", delta,
                              rendered.isRolling \/ rendered.isSettling, 0,
                              TRUE, IF settled.close THEN Cue(ok) ELSE "none")
  /\ ticks' = IF rendered.isRolling THEN ticks + 1 ELSE ticks
  /\ UNCHANGED << selectedDice, appVars, isRolling, rollValue, targetRotation,
                  timers, lastOutcome, lastNotified, rendered >>

\* ------------------------------------------------------------ App actions
\* A click on the x<factor> button's handler.
Multiply(factor) ==
  /\ multiplier * factor <= MaxMultiplier
  /\ LET r == HandleMultiply(displayValue, multiplier, factor)
     IN /\ displayValue' = r.displayValue
        /\ multiplier' = r.multiplier
  /\ last' = Event("multiply", factor, displayValue # NULL, 0, TRUE)
  /\ UNCHANGED << selectedDice, diceVars, timers, lastOutcome, lastNotified,
                  rendered >>

\* A click on the Reset button's handler.
ResetMultiplier ==
  /\ LET r == HandleResetMultiplier(displayValue, multiplier)
     IN /\ displayValue' = r.displayValue
        /\ multiplier' = r.multiplier
  /\ last' = Event("reset", 0, displayValue # NULL /\ multiplier > 1, 0, TRUE)
  /\ UNCHANGED << selectedDice, diceVars, timers, lastOutcome, lastNotified,
                  rendered >>

\* A scene that keeps the die it shows, and that die's state, when
\* selectedDice changes.
SceneKeepsDice == UNCHANGED << diceVars, timers, rendered >>

\* The scene's answer to a new selectedDice: it unmounts the die it shows,
\* whose state is discarded, and mounts a fresh one of the other type.
SceneRemount ==
  /\ isRolling' = FreshDice.isRolling
  /\ rollValue' = FreshDice.rollValue
  /\ isSettling' = FreshDice.isSettling
  /\ rotation' = FreshDice.rotation
  /\ targetRotation' = FreshDice.targetRotation
  /\ ticks' = 0
  /\ timers' = Orphan(timers)
  /\ rendered' = Snapshot(FreshDice.isRolling, FreshDice.isSettling,
                          FreshDice.rollValue)

\* A dice-sidebar button that also clears the overlay.
SelectDiceClearsOverlay(dice) ==
  /\ selectedDice' = dice
  /\ IF dice # selectedDice
       THEN SceneRemount
       ELSE UNCHANGED << diceVars, timers, rendered >>
  /\ displayValue' = NULL
  /\ multiplier' = 1
  /\ last' = Event("select", 0, dice # selectedDice, 0, TRUE)
  /\ UNCHANGED << lastOutcome, lastNotified >>

\* A dice-sidebar button that mounts a fresh die on every click.
SelectDiceAlwaysRemounts(dice) ==
  /\ selectedDice' = dice
  /\ SceneRemount
  /\ last' = Event("select", 0, dice # selectedDice, 0, TRUE)
  /\ UNCHANGED << appVars, lastOutcome, lastNotified >>

\* A click on a dice-sidebar button: setSelectedDice(dice).  Setting the
\* value already held changes nothing.
SelectDice(dice) ==
  /\ selectedDice' = dice
  /\ IF dice # selectedDice
       THEN SceneRemount
       ELSE UNCHANGED << diceVars, timers, rendered >>
  /\ last' = Event("select", 0, dice # selectedDice, 0, TRUE)
  /\ UNCHANGED << appVars, lastOutcome, lastNotified >>

\* ---------------------------------------------------------- specification
Next ==
  \/ D20HandleClick
  \/ \E k \in 0 .. RandomDenom - 1 : D20Timeout(k)
  \/ \E delta \in Deltas : D20Frame(delta)
  \/ \E ok \in BOOLEAN : D6HandleClick(ok)
  \/ \E k \in 0 .. RandomDenom - 1 : D6Timeout(k)
  \/ \E delta \in Deltas, ok \in BOOLEAN : D6Frame(delta, ok)
  \/ Render
  \/ \E factor \in Factors : Multiply(factor)
  \/ ResetMultiplier
  \/ \E dice \in DiceType : SelectDice(dice)

Spec == Init /\ [][Next]_vars

\* ------------------------------------- rolls whose timers always fire
D20TimeoutStep == \E k \in 0 .. RandomDenom - 1 : D20Timeout(k)

D6TimeoutStep == \E k \in 0 .. RandomDenom - 1 : D6Timeout(k)

\* The dice without the multiplier buttons: clicks, callbacks, frames,
\* renders and die selection.
RollNext ==
  \/ D20HandleClick
  \/ D20TimeoutStep
  \/ \E delta \in Deltas : D20Frame(delta)
  \/ \E ok \in BOOLEAN : D6HandleClick(ok)
  \/ D6TimeoutStep
  \/ \E delta \in Deltas, ok \in BOOLEAN : D6Frame(delta, ok)
  \/ Render
  \/ \E dice \in DiceType : SelectDice(dice)

\* The browser runs the callback of every setTimeout; nothing in the code
\* calls clearTimeout.  Frames, renders and user input may or may not come.
RollSpec ==
  /\ Init
  /\ [][RollNext]_vars
  /\ WF_vars(D20TimeoutStep)
  /\ WF_vars(D6TimeoutStep)

\* ------------------------------------------- the settling of one D6 roll
\* Frame deltas (ms) of a renderer at 60 and at 50 frames per second: the
\* easing factor 25 * delta is 0.4 and 0.5.
SettleDeltas == {16, 20}

\* How long (ms of accumulated frame delta) the die has tumbled from its
\* mounting orientation when the roll is observed.
TumbleTimes == {0, 20, 700, 1500}

\* The orientations those tumbles leave.
StartRotations == { Tumble(FreshDice.rotation, t) : t \in TumbleTimes }

\* A mounted D6 in the middle of its first roll: handleClick has run, its
\* callback is pending, some frames have tumbled the die.
SettleInit ==
  /\ selectedDice = "d6"
  /\ displayValue = NULL
  /\ multiplier = 1
  /\ isRolling = TRUE
  /\ rollValue = NULL
  /\ isSettling = FALSE
  /\ rotation \in StartRotations
  /\ targetRotation = FreshDice.targetRotation
  /\ ticks = 0
  /\ timers = << [dice |-> "d6", live |-> TRUE] >>
  /\ lastOutcome = NULL
  /\ lastNotified = NULL
  /\ last = SoundEvent("click", 0, TRUE, 0, TRUE, "played")
  /\ rendered = Snapshot(TRUE, FALSE, NULL)

\* The roll runs to its end with no further input: the callback, the
\* frames and the renders.
SettleNext ==
  \/ \E k \in 0 .. RandomDenom - 1 : D6Timeout(k)
  \/ \E delta \in SettleDeltas, ok \in BOOLEAN : D6Frame(delta, ok)
  \/ Render

SettleSpec == SettleInit /\ [][SettleNext]_vars

\* ------------------------------- one D6 roll on a renderer that may be slow
\* Frame deltas (ms) of a renderer at 60 and at 12.5 frames per second: the
\* easing factor 25 * delta is 0.4 and 2.  useFrame hands the clock's delta
\* on as it is; nothing in D6Dice limits it or the factor.
SlowDeltas == {16, 80}

SlowFrame == \E delta \in SlowDeltas, ok \in BOOLEAN : D6Frame(delta, ok)

SlowTimeout == \E k \in 0 .. RandomDenom - 1 : D6Timeout(k)

SlowNext == SlowTimeout \/ SlowFrame \/ Render

\* The browser keeps animating (requestAnimationFrame), fires every timer
\* and runs every render React has queued.
SlowSpec ==
  /\ SettleInit
  /\ [][SlowNext]_vars
  /\ WF_vars(SlowFrame)
  /\ WF_vars(SlowTimeout)
  /\ WF_vars(Render)

\* ============================================================ properties
\* Faces of the mounted die.
Faces == IF selectedDice = "d20" THEN D20Faces ELSE D6Faces

\* The mounted die is in phase Rolling.
Rolling == isRolling

\* The mounted D6 is in phase Settling: the callback has run, the easing
\* has not converged, and no new roll is under way.
Settling == selectedDice = "d6" /\ isSettling /\ ~isRolling

\* C1: for either die type, a click on the die while it is Rolling changes
\* neither the die's state (isRolling, rollValue, isSettling, rotation,
\* targetRotation) nor the overlay, and schedules no second callback.
C1_ClickWhileRollingIsNoOp ==
  [][(last'.op = "click" /\ Rolling)
       => UNCHANGED << isRolling, rollValue, isSettling, rotation,
                       targetRotation, timers, displayValue, multiplier >>]_vars

\* C1 witness: a click on a rolling D20 has just been turned away, with the
\* one callback of the roll still pending.
C1_Witness ==
  /\ last.op = "click" /\ ~last.accepted
  /\ selectedDice = "d20" /\ isRolling /\ rollValue = NULL
  /\ Len(timers) = 1

\* C2 (as claimed): a click on the D6 while it is Settling leaves rollValue,
\* isRolling and isSettling as they are and schedules no callback.
C2_ClickWhileSettlingIsIgnored ==
  [][(last'.op = "click" /\ Settling)
       => UNCHANGED << isRolling, rollValue, isSettling, timers >>]_vars

\* C3 (as claimed): the callback of a die that is no longer mounted changes
\* neither the overlay nor the mounted die.
C3_OrphanCallbackChangesNothing ==
  [][(last'.op = "timeout" /\ ~last'.live)
       => UNCHANGED << displayValue, multiplier, isRolling, rollValue,
                       isSettling, rotation, targetRotation >>]_vars

\* C4 (as claimed): every run of a roll's completion callback, of either
\* die type, calls onRollComplete exactly once.
C4_NotifiedExactlyOnce ==
  last.op = "timeout" => last.notified = 1

\* C5 (as claimed): whenever displayValue is set, it is the outcome of the
\* roll resolved last, of whichever die, times the multiplier.
C5_DisplayIsLastOutcomeTimesMultiplier ==
  displayValue # NULL => displayValue = lastOutcome * multiplier

\* C6: every outcome a roll stores is an integer in 1 .. N, N the face count
\* of its die; the callback of a mounted die stores the result it drew.
C6_OutcomeInRange ==
  /\ rollValue # NULL => rollValue \in 1 .. Faces
  /\ lastOutcome # NULL => lastOutcome \in 1 .. D20Faces
  /\ (last.op = "timeout" /\ last.live) => rollValue = lastOutcome
  /\ lastNotified # NULL => lastNotified \in 1 .. D6Faces

\* C6 witness: a D20 roll has stored the largest outcome.
C6_Witness ==
  /\ last.op = "timeout" /\ last.live
  /\ selectedDice = "d20" /\ rollValue = D20Faces

\* Longest factor sequence tried in the round trip.
MaxFactors == 2

\* Sequences of at most n multiplier factors.
FactorSeqs(n) == UNION { [1 .. len -> Factors] : len \in 0 .. n }

RECURSIVE MultiplyAll(_, _, _)
\* handleMultiply applied for each factor of fs in turn, from overlay (dv, m).
MultiplyAll(dv, m, fs) ==
  IF fs = << >>
    THEN [displayValue |-> dv, multiplier |-> m]
    ELSE LET r == HandleMultiply(dv, m, Head(fs))
         IN MultiplyAll(r.displayValue, r.multiplier, Tail(fs))

\* C7: (a) from every reachable overlay state with displayValue v set and
\* multiplier 1, multiplying by any sequence of factors and then resetting
\* once gives back displayValue v and multiplier 1; (b) in the runs of the
\* program, every reset taken after multiplications restores displayValue
\* to the value the overlay was given at multiplier 1 (the argument of the
\* latest handleRollComplete) and multiplier to 1.
C7_MultiplyResetRoundTrip ==
  /\ (displayValue # NULL /\ multiplier = 1) =>
       \A fs \in FactorSeqs(MaxFactors) :
         LET r == MultiplyAll(displayValue, 1, fs)
         IN HandleResetMultiplier(r.displayValue, r.multiplier)
              = [displayValue |-> displayValue, multiplier |-> 1]
  /\ (last.op = "reset" /\ last.accepted) =>
       displayValue = lastNotified /\ multiplier = 1

\* C7 witness: a reset has just undone the multiplications applied to a
\* rolled 5.
C7_Witness ==
  /\ last.op = "reset" /\ last.accepted
  /\ multiplier = 1 /\ displayValue = 5 /\ lastNotified = 5

\* C8: with displayValue set, a multiply(factor) step multiplies displayValue
\* and multiplier by factor; in particular from (6, 1) x2 gives (12, 2), from
\* (12, 2) x3 gives (36, 6), and from (36, 6) reset gives (6, 1).
C8_MultiplyComposes ==
  [][/\ (last'.op = "multiply" /\ displayValue # NULL) =>
          /\ displayValue' = displayValue * last'.arg
          /\ multiplier' = multiplier * last'.arg
     /\ (last'.op = "multiply" /\ last'.arg = 2
           /\ displayValue = 6 /\ multiplier = 1) =>
          (displayValue' = 12 /\ multiplier' = 2)
     /\ (last'.op = "multiply" /\ last'.arg = 3
           /\ displayValue = 12 /\ multiplier = 2) =>
          (displayValue' = 36 /\ multiplier' = 6)
     /\ (last'.op = "reset" /\ displayValue = 36 /\ multiplier = 6) =>
          (displayValue' = 6 /\ multiplier' = 1)
    ]_vars

\* C8 witness: the D6 rolled 6, and x2 then x3 brought the overlay from
\* (12, 2) to (36, 6).
C8_Witness ==
  /\ last.op = "multiply" /\ last.arg = 3 /\ last.accepted
  /\ lastNotified = 6 /\ displayValue = 36 /\ multiplier = 6

\* C9: every step in which handleRollComplete(outcome) runs ends with
\* displayValue = outcome and multiplier = 1.
C9_RollCompleteResetsOverlay ==
  [][(last'.op = "timeout" /\ last'.notified > 0)
       => /\ lastNotified' = lastOutcome'
          /\ displayValue' = lastNotified' /\ multiplier' = 1]_vars

\* C9 witness: a completion callback has just called handleRollComplete,
\* which left (outcome, 1), while another roll is still in flight.
C9_Witness ==
  /\ last.op = "timeout" /\ last.notified = 1
  /\ displayValue = lastOutcome /\ multiplier = 1
  /\ timers # << >>

\* C10: a multiply step taken while displayValue is null leaves displayValue
\* null and multiplier 1.
C10_MultiplyOnNullIsNoOp ==
  [][(last'.op = "multiply" /\ displayValue = NULL)
       => displayValue' = NULL /\ multiplier' = 1 /\ multiplier = 1]_vars

\* C10 witness: handleMultiply has just run with nothing to multiply.
C10_Witness ==
  /\ last.op = "multiply" /\ ~last.accepted
  /\ displayValue = NULL /\ multiplier = 1

\* C11: a reset step taken while multiplier is 1 or displayValue is null
\* leaves displayValue and multiplier as they are; so does a reset step that
\* directly follows a reset step.
C11_ResetAtOneIsNoOp ==
  [][/\ (last'.op = "reset" /\ (multiplier = 1 \/ displayValue = NULL))
          => UNCHANGED << displayValue, multiplier >>
     /\ (last'.op = "reset" /\ last.op = "reset")
          => UNCHANGED << displayValue, multiplier >>
    ]_vars

\* C11 witness: the reset handler has just run on a rolled value whose
\* multiplier was already 1, and changed nothing.
C11_Witness ==
  /\ last.op = "reset" /\ ~last.accepted
  /\ displayValue # NULL /\ displayValue = lastNotified /\ multiplier = 1

\* C12: a die-selection step leaves displayValue and multiplier as they
\* are, and every step that changes either of them is a roll completion
\* that notifies App, a multiply or a reset.
C12_SelectKeepsOverlay ==
  [][/\ last'.op = "select" => UNCHANGED << displayValue, multiplier >>
     /\ << displayValue, multiplier >>' # << displayValue, multiplier >>
          => \/ last'.op = "timeout" /\ last'.notified > 0
             \/ last'.op = "multiply"
             \/ last'.op = "reset"
    ]_vars

\* C12 witness: the die type has just been switched with a multiplied
\* value on the overlay.
C12_Witness ==
  /\ last.op = "select" /\ last.accepted
  /\ displayValue = 12 /\ multiplier = 2

\* C13: a selection step that changes the die type leaves a mounted die of
\* the selected type that is idle with no outcome, at the default
\* orientation, and owns none of the pending callbacks, whatever the die it
\* replaces was doing.
C13_SelectMountsFreshDie ==
  [][(last'.op = "select" /\ selectedDice' # selectedDice)
       => /\ ~isRolling' /\ ~isSettling' /\ rollValue' = NULL
          /\ rotation' = <<0, 0, 0>>
          /\ ~rendered'.isRolling /\ rendered'.rollValue = NULL
          /\ \A i \in 1 .. Len(timers') : ~timers'[i].live
    ]_vars

\* C13 witness: the die type has just been switched in the middle of a
\* roll, whose callback is still pending.
C13_Witness ==
  /\ last.op = "select" /\ last.accepted
  /\ timers # << >>
  /\ ~isRolling /\ rollValue = NULL

\* C14 (as claimed): whenever the D20 is Resolved (not rolling, outcome o
\* stored), its orientation is D20_FACE_UP_ROTATIONS[o], also after a frame
\* that runs between the callback and the render of its state updates.
C14_D20ResolvedAtFaceUp ==
  (selectedDice = "d20" /\ ~isRolling /\ rollValue # NULL /\ ~RenderPending)
    => rotation = D20FaceUp(rollValue)

\* C15: the D6 passes from Settling to Resolved only in a frame whose eased
\* orientation is within the threshold of the target on all three axes;
\* and whenever it is Resolved with outcome o its orientation is
\* D6_FACE_UP_ROTATIONS[o].
C15_D6SettlesWithinThreshold ==
  [][/\ (selectedDice = "d6" /\ selectedDice' = "d6"
           /\ isSettling /\ ~isSettling' /\ ~isRolling')
          => /\ last'.op = "frame"
             /\ LET from == IF rendered.isRolling
                              THEN Tumble(rotation, last'.arg) ELSE rotation
                IN \A i \in 1 .. 3 :
                     Abs(Lerp(from[i], targetRotation[i], last'.arg)
                           - targetRotation[i]) < threshold
     /\ (selectedDice' = "d6" /\ ~isRolling' /\ ~isSettling'
           /\ rollValue' # NULL)
          => rotation' = D6_FACE_UP_ROTATIONS[rollValue']
    ]_vars

\* C15 witness: a 16 ms frame has just ended the settling of a rolled 6,
\* with the die on that face's orientation.
C15_Witness ==
  /\ last.op = "frame" /\ last.arg = 16 /\ last.sound # "none"
  /\ selectedDice = "d6" /\ ~isRolling /\ ~isSettling
  /\ rollValue = 6 /\ rotation = <<0, 3142, 0>>

\* The phase a render of the mounted die shows.
PhaseOf(r) ==
  IF r.isRolling THEN "Rolling"
  ELSE IF r.isSettling THEN "Settling"
  ELSE IF r.rollValue # NULL THEN "Resolved"
  ELSE "Idle"

\* C16 (as claimed): for both die types, the result text is on screen only
\* when the die the render shows is Resolved, never while it is Idle,
\* Rolling or Settling.
C16_TextOnlyWhenResolved ==
  TextShown(rendered) => PhaseOf(rendered) = "Resolved"

\* C17: whenever the D20 is shown Resolved, its result text is on screen and
\* reads CRITICAL HIT! for outcome 20, CRITICAL FAIL! for outcome 1 and
\* Rolled: n for every other outcome n of 2 .. 19.
C17_D20ResultText ==
  (selectedDice = "d20" /\ PhaseOf(rendered) = "Resolved") =>
    /\ TextShown(rendered)
    /\ rendered.rollValue = 20 => D20Text(rendered.rollValue) = << "CRITICAL HIT!" >>
    /\ rendered.rollValue = 1 => D20Text(rendered.rollValue) = << "CRITICAL FAIL!" >>
    /\ rendered.rollValue \in 2 .. 19 =>
         D20Text(rendered.rollValue) = << "Rolled: ", rendered.rollValue >>
    /\ rendered.rollValue \in 1 .. 20

\* C17 witness: the D20 is shown Resolved with the outcome 20.
C17_Witness ==
  /\ selectedDice = "d20" /\ PhaseOf(rendered) = "Resolved"
  /\ rendered.rollValue = 20 /\ rollValue = 20 /\ last.op = "render"

\* C18: every lookup a completion callback of a mounted die makes finds an
\* entry: the outcome o it drew is in 1 .. N, the table of its die has an
\* entry for o, that entry is a rotation of three axes, and it is what the
\* callback hands on (the D20's orientation, the D6's target).  The tables
\* are constants: no handler writes to them.
C18_FaceLookupTotal ==
  [][(last'.op = "timeout" /\ last'.live) =>
       /\ selectedDice = "d20" =>
            /\ lastOutcome' \in 1 .. D20Faces
            /\ lastOutcome' \in DOMAIN D20_FACE_UP_ROTATIONS
            /\ rotation' = D20_FACE_UP_ROTATIONS[lastOutcome']
            /\ Len(rotation') = 3
       /\ selectedDice = "d6" =>
            /\ lastOutcome' \in 1 .. D6Faces
            /\ lastOutcome' \in DOMAIN D6_FACE_UP_ROTATIONS
            /\ targetRotation' = D6_FACE_UP_ROTATIONS[lastOutcome']
            /\ Len(targetRotation') = 3
    ]_vars

\* C18 witness: the callback of a mounted D6 has just looked up the entry
\* of the last face.
C18_Witness ==
  /\ last.op = "timeout" /\ last.live
  /\ selectedDice = "d6" /\ rollValue = D6Faces
  /\ targetRotation = <<0, 3142, 0>>

\* C19: a handler of the D6 that requests an audio cue does to the die, the
\* pending callbacks and the overlay exactly the same whether the playback
\* succeeds or fails: the click starts the roll, the converging frame snaps
\* the die and ends the settling.
C19_AudioFailureUnobservable ==
  [][/\ (last'.op = "click" /\ last'.sound \in {"played", "failed"}) =>
          /\ isRolling' /\ rollValue' = NULL
          /\ timers' = Append(timers, [dice |-> "d6", live |-> TRUE])
          /\ UNCHANGED << isSettling, rotation, targetRotation,
                          displayValue, multiplier >>
     /\ (last'.op = "frame" /\ last'.sound \in {"played", "failed"}) =>
          /\ ~isSettling' /\ rotation' = targetRotation
          /\ UNCHANGED << isRolling, rollValue, targetRotation, timers,
                          displayValue, multiplier >>
    ]_vars

\* C19 witness: the frame that ended the settling of a D6 roll requested
\* the settle cue, whose playback failed; the die is Resolved.
C19_Witness ==
  /\ last.op = "frame" /\ last.sound = "failed"
  /\ selectedDice = "d6" /\ ~isRolling /\ ~isSettling
  /\ rollValue # NULL /\ rotation = targetRotation

\* The pending callbacks that belong to the mounted die.
LiveTimers == { i \in 1 .. Len(timers) : timers[i].live }

\* C21: the mounted die has one pending callback when it is Rolling and
\* none otherwise, every pending callback of a mounted die is of the
\* selected type, and when a callback of the mounted die has run no other
\* roll of that die is pending.
C21_OneTimerIffRolling ==
  /\ Cardinality(LiveTimers) = IF isRolling THEN 1 ELSE 0
  /\ \A i \in LiveTimers : timers[i].dice = selectedDice
  /\ (last.op = "timeout" /\ last.live) => (~isRolling /\ LiveTimers = {})

\* C21 witness: a D6 is rolling with its one callback pending behind the
\* callback of a die that was unmounted.
C21_Witness ==
  /\ selectedDice = "d6" /\ isRolling
  /\ Len(timers) = 2 /\ LiveTimers = {2}

\* C22 (as claimed): with frames ticking and no further click, a D6 that
\* is Settling eventually is Resolved, whatever frame deltas the renderer
\* supplies.
C22_SettlingEnds ==
  (selectedDice = "d6" /\ isSettling /\ ~isRolling)
    ~> (~isSettling /\ ~isRolling /\ rollValue # NULL)

\* C23: every pending callback runs: no step but a callback's own run takes
\* a callback off the pending ones, the oldest pending callback eventually
\* runs whether or not any frame is rendered, a die that is Rolling
\* eventually is not, and the run of a mounted die's callback leaves the
\* die not Rolling with the drawn outcome stored.
C23_TimerAlwaysFires ==
  /\ [][(last'.op = "timeout" /\ last'.live)
         => (~isRolling' /\ rollValue' # NULL /\ rollValue' = lastOutcome')]_vars
  /\ [][Len(timers') < Len(timers)
         => (last'.op = "timeout" /\ timers' = Tail(timers))]_vars
  /\ (timers # << >> /\ last.op # "timeout") ~> (last.op = "timeout")
  /\ \A n \in 1 .. MaxTimers :
       (Len(timers) = n /\ last.op = "timeout")
         ~> (Len(timers) # n \/ last.op # "timeout")
  /\ isRolling ~> ~isRolling

\* C23 witness: the callback of a D20 roll has just run with no frame
\* rendered since the click.
C23_Witness ==
  /\ last.op = "timeout" /\ last.live
  /\ selectedDice = "d20" /\ ticks = 0
  /\ ~isRolling /\ rollValue = lastOutcome /\ rotation = D20FaceUp(rollValue)

\* C24: a die that is Rolling has no outcome: every accepted click clears
\* rollValue, and rollValue gets a value only in the run of the mounted
\* die's callback, which takes the die out of Rolling.
C24_RollingHasNoOutcome ==
  [][/\ isRolling' => rollValue' = NULL
     /\ (last'.op = "click" /\ last'.accepted)
          => (isRolling' /\ rollValue' = NULL)
     /\ (rollValue' # rollValue /\ rollValue' # NULL)
          => (last'.op = "timeout" /\ last'.live /\ isRolling /\ ~isRolling')
    ]_vars

\* C24 witness: a D20 that showed an outcome has been clicked again and is
\* Rolling with the outcome cleared.
C24_Witness ==
  /\ last.op = "click" /\ last.accepted
  /\ selectedDice = "d20" /\ isRolling /\ rollValue = NULL
  /\ lastOutcome # NULL /\ rotation = D20FaceUp(lastOutcome)

\* C25: a frame of elapsed time dt that finds the die Rolling and not
\* Settling adds exactly (5 dt, 7 dt, 3 dt) to its orientation, so a further
\* tick of any d gives the orientation that one tick of dt + d gives from
\* the orientation before the frame.
C25_TumbleIsAdditive ==
  [][(last'.op = "frame" /\ rendered.isRolling /\ ~rendered.isSettling) =>
       /\ rotation' = << rotation[1] + 5 * last'.arg,
                         rotation[2] + 7 * last'.arg,
                         rotation[3] + 3 * last'.arg >>
       /\ \A d \in Deltas \cup SettleDeltas :
            Tumble(rotation', d) = Tumble(rotation, last'.arg + d)
    ]_vars

\* C25 witness: a D20 re-rolled from the face of its last outcome has
\* tumbled for two frames of 40 ms and stands where one frame of 80 ms
\* would have put it.
C25_Witness ==
  /\ last.op = "frame" /\ last.arg = 40 /\ ticks = 2
  /\ selectedDice = "d20" /\ isRolling /\ lastOutcome # NULL
  /\ rotation = << D20FaceUp(lastOutcome)[1] + 400,
                   D20FaceUp(lastOutcome)[2] + 560,
                   D20FaceUp(lastOutcome)[3] + 240 >>

\* C26: a frame that finds the die neither Rolling nor Settling, whatever
\* its elapsed time, leaves the orientation, isRolling, isSettling, the
\* outcome and the target orientation as they are.
C26_IdleFrameIsNoOp ==
  [][(last'.op = "frame" /\ ~rendered.isRolling /\ ~rendered.isSettling)
       => UNCHANGED << rotation, isRolling, isSettling, rollValue,
                       targetRotation, rendered >>]_vars

\* C26 witness: a frame has just passed over a Resolved D20 that stands on
\* the face of its outcome.
C26_Witness ==
  /\ last.op = "frame" /\ ~last.accepted
  /\ selectedDice = "d20" /\ ~isRolling /\ rollValue # NULL
  /\ ~RenderPending /\ rotation = D20FaceUp(rollValue)

\* C27 (as claimed): a frame of the D6 requests the settle cue only when it
\* takes the die from Settling to Resolved, which happens once per roll,
\* and never while the die is Rolling.
C27_SettleCueOncePerRoll ==
  [][(last'.op = "frame" /\ last'.sound # "none")
       => /\ isSettling /\ ~isSettling'
          /\ ~isRolling /\ ~isRolling' /\ rollValue' # NULL
    ]_vars

\* C28: in every reachable state each multiplier button x2 .. x6 is
\* disabled exactly when handleMultiply of its factor would leave the
\* overlay as it is, which is when displayValue is null; and the Reset
\* button is disabled exactly when handleResetMultiplier would leave the
\* overlay as it is.
C28_DisabledIffNoOp ==
  LET now == [displayValue |-> displayValue, multiplier |-> multiplier]
  IN /\ MultiplyDisabled(displayValue) <=> displayValue = NULL
     /\ \A factor \in Factors :
          MultiplyDisabled(displayValue)
            <=> HandleMultiply(displayValue, multiplier, factor) = now
     /\ ResetDisabled(multiplier)
          <=> HandleResetMultiplier(displayValue, multiplier) = now

\* C28 witness: a rolled value has just been tripled, so all six buttons
\* are enabled.
C28_Witness ==
  /\ last.op = "multiply" /\ last.arg = 3 /\ last.accepted
  /\ multiplier = 3 /\ displayValue = 3 * lastNotified
  /\ ~MultiplyDisabled(displayValue) /\ ~ResetDisabled(multiplier)

\* C29: within each table the entry of an outcome is the entry of no other
\* outcome: the entry of the outcome drawn last differs, as a triple, from
\* the entry of every other outcome of the same die, and the target a D6
\* roll has stored is the entry of its outcome only.
C29_TablesInjective ==
  /\ lastOutcome # NULL =>
       /\ \A o \in (1 .. D20Faces) \ {lastOutcome} :
            D20_FACE_UP_ROTATIONS[o] # D20_FACE_UP_ROTATIONS[lastOutcome]
       /\ lastOutcome \in 1 .. D6Faces =>
            \A o \in (1 .. D6Faces) \ {lastOutcome} :
              D6_FACE_UP_ROTATIONS[o] # D6_FACE_UP_ROTATIONS[lastOutcome]
  /\ (selectedDice = "d6" /\ rollValue # NULL) =>
       \A o \in 1 .. D6Faces :
         D6_FACE_UP_ROTATIONS[o] = targetRotation => o = rollValue

\* C29 witness: a D6 standing on the orientation of face 1 has drawn a 6,
\* whose target is another orientation.
C29_Witness ==
  /\ last.op = "timeout" /\ last.live
  /\ selectedDice = "d6" /\ rollValue = 6
  /\ rotation = D6_FACE_UP_ROTATIONS[1] /\ targetRotation # rotation

\* C30: whenever the mounted D6 has an outcome o stored, its target
\* orientation is D6_FACE_UP_ROTATIONS[o]; and the target orientation of a
\* mounted D6 changes only in the run of its callback, which stores the
\* outcome in the same step (a newly mounted die starts with its own).
C30_TargetMatchesOutcome ==
  [][/\ (selectedDice' = "d6" /\ rollValue' # NULL)
          => targetRotation' = D6_FACE_UP_ROTATIONS[rollValue']
     /\ targetRotation' # targetRotation
          => \/ /\ last'.op = "timeout" /\ last'.live
                /\ selectedDice = "d6"
                /\ rollValue' = lastOutcome' /\ rollValue' # NULL
             \/ /\ last'.op = "select" /\ selectedDice' # selectedDice
                /\ targetRotation' = FreshDice.targetRotation
    ]_vars

\* C30 witness: a D6 that rolled a 3 is shown Resolved on that face, its
\* target still being the entry of 3.
C30_Witness ==
  /\ last.op = "render"
  /\ selectedDice = "d6" /\ rollValue = 3 /\ ~isRolling /\ ~isSettling
  /\ targetRotation = <<1571, 0, 0>> /\ rotation = targetRotation

\* C31: in every reachable state multiplier is at least 1 and displayValue,
\* when set, is at least 1 and a multiple of multiplier, so the division of
\* every reset that acts is exact and leaves a whole displayValue.
C31_OverlayStaysWhole ==
  [][/\ multiplier' >= 1
     /\ displayValue' # NULL =>
          (displayValue' >= 1 /\ displayValue' % multiplier' = 0)
     /\ (last'.op = "reset" /\ last'.accepted) =>
          (displayValue % multiplier = 0
             /\ displayValue' * multiplier = displayValue)
    ]_vars

\* C31 witness: a reset has just divided a rolled 5 that had been
\* multiplied by 6 back to 5.
C31_Witness ==
  /\ last.op = "reset" /\ last.accepted
  /\ displayValue = 5 /\ multiplier = 1 /\ lastNotified = 5
  /\ selectedDice = "d6" /\ rollValue = 5

\* C32 (as claimed): the D6 is never both rolling and settling.
C32_NeverRollingAndSettling ==
  ~(selectedDice = "d6" /\ isRolling /\ isSettling)

\* C33: in every reachable state a null displayValue comes with multiplier
\* 1, and no step of any handler (roll completion, multiply, reset, die
\* selection) takes displayValue from a value back to null.
C33_DisplayNeverClearedAgain ==
  [][/\ displayValue' = NULL => multiplier' = 1
     /\ displayValue # NULL => displayValue' # NULL
    ]_vars

\* C33 witness: with a multiplied value on the overlay the die type has
\* been switched and the new die clicked; the value is still there.
C33_Witness ==
  /\ last.op = "click" /\ last.accepted /\ selectedDice = "d20"
  /\ displayValue = 8 /\ multiplier = 4 /\ rollValue = NULL

\* C34: whenever the render of the mounted D6 includes its result Text, the
\* text for an outcome r of 2 .. 5 is Rolled: X with X = r times the current
\* multiplier, for outcome 6 it is MAX ROLL! and for outcome 1 MIN ROLL!,
\* whatever the multiplier.  Timers fire in the order they were scheduled.
C34_D6ResultText ==
  (selectedDice = "d6" /\ TextShown(rendered)) =>
    LET r == rendered.rollValue
        text == D6Text(r, SceneDisplayValue(displayValue))
    IN /\ r \in 1 .. 6
       /\ r \in 2 .. 5 => text = << "Rolled: ", r * multiplier >>
       /\ r = 6 => text = << "MAX ROLL!" >>
       /\ r = 1 => text = << "MIN ROLL!" >>

\* C34 witness: the D6 shows the text for outcome 3 and the multiplier has
\* just been brought to 6: the text reads Rolled: 18.
C34_Witness ==
  /\ selectedDice = "d6" /\ TextShown(rendered) /\ rendered.rollValue = 3
  /\ multiplier = 6 /\ displayValue = 18 /\ last.op = "multiply"
  /\ D6Text(rendered.rollValue, SceneDisplayValue(displayValue)) = << "Rolled: ", 18 >>

\* C35: a selection step for the die type that is already active changes
\* nothing: the mounted die keeps its phase, outcome, orientation and
\* target, the render keeps what it shows, every pending callback stays as
\* it is (the die's own ones still belong to a mounted die), and
\* displayValue and multiplier are as before.
C35_SelectSameIsNoOp ==
  [][(last'.op = "select" /\ selectedDice' = selectedDice)
       => /\ ~last'.accepted
          /\ UNCHANGED << isRolling, isSettling, rollValue >>
          /\ UNCHANGED << rotation, targetRotation, ticks >>
          /\ UNCHANGED << timers, rendered >>
          /\ UNCHANGED << displayValue, multiplier >>
    ]_vars

\* C35 witness: the button of the active D6 has just been clicked in the
\* middle of a roll, with a tumbled orientation, a pending callback of the
\* die and a multiplied value on the overlay.
C35_Witness ==
  /\ last.op = "select" /\ ~last.accepted /\ selectedDice = "d6"
  /\ isRolling /\ rotation # <<0, 0, 0>>
  /\ \E i \in 1 .. Len(timers) : timers[i].live
  /\ displayValue = 8 /\ multiplier = 2

\* C36: the callback of the mounted D6 runs while the die is rolling and is
\* the step that notifies App: it calls onRollComplete once with the outcome
\* it stores, and leaves the die settling with displayValue = that outcome
\* and multiplier = 1.  The frame that ends the settling notifies nothing
\* and leaves the overlay alone.  So throughout Settling the latest
\* notification is the die's outcome and displayValue is that outcome times
\* the multiplier (1 until a multiplier operation intervenes).
C36_NotifiedAtSettlingStart ==
  /\ [](Settling => /\ lastNotified = rollValue
                   /\ displayValue = rollValue * multiplier)
  /\ [][/\ (last'.op = "timeout" /\ last'.live /\ selectedDice = "d6")
            => /\ isRolling /\ ~isRolling' /\ isSettling'
               /\ last'.notified = 1
               /\ rollValue' = lastOutcome' /\ lastNotified' = rollValue'
               /\ displayValue' = rollValue' /\ multiplier' = 1
        /\ (selectedDice = "d6" /\ selectedDice' = "d6"
              /\ isSettling /\ ~isSettling')
            => /\ last'.op = "frame" /\ last'.notified = 0
               /\ UNCHANGED << displayValue, multiplier, lastNotified >>
       ]_vars

\* C36 witness: the D6 is still Settling on outcome 3 and a multiply by 2
\* has just run: the overlay holds 6.
C36_Witness ==
  /\ Settling /\ rollValue = 3 /\ rotation # targetRotation
  /\ last.op = "multiply" /\ last.accepted
  /\ multiplier = 2 /\ displayValue = 6 /\ lastNotified = 3

====
